---- MODULE Spec2Model ----
(***************************************************************************)
(* Model of the raster delineation of one unit catchment                   *)
(* (merit_detailed.get_subdivided_merit_polygon) and of the hole filling   *)
(* of fast_dissolve.close_holes.                                           *)
(*                                                                         *)
(* Geometry is discretised on the raster's own lattice.  A length is a     *)
(* pair <<u, e>> that stands for  u/(Pixel*1200) degree + e*d, where       *)
(* d = 0.0008333333335070341758/2 - 1/2400 > 0 is the amount by which the  *)
(* literal half pixel of the code exceeds half of 1/1200 degree.  d is     *)
(* some 10^-13 degree, far below one model unit, so pairs are ordered      *)
(* lexicographically.                                                      *)
(*                                                                         *)
(* The calls into pysheds.pgrid, numpy, scipy and shapely are modelled by  *)
(* what these libraries do at the call site.                               *)
(***************************************************************************)
EXTENDS Integers, Sequences, FiniteSets, TLC

\* The world raster has rows 0..MaxRow and columns 0..MaxCol.
MaxRow == 6
MaxCol == 7

\* One raster pixel (1/1200 degree) in model units: positions are known to a
\* quarter of a pixel.
Pixel == 4

\* halfpix = 0.0008333333335070341758 / 2: two quarter pixels plus the excess d.
halfpix == <<Pixel \div 2, 1>>

\* dirmap = (64, 128, 1, 2, 4, 8, 16, 32): N, NE, E, SE, S, SW, W, NW.
dirmap == <<64, 128, 1, 2, 4, 8, 16, 32>>

\* nodata=0 of Grid.from_raster, nodata_out=0 of grid.catchment.
nodata == 0

\* recursionlimit=15000 of grid.catchment.
recursionlimit == 15000

\* The two snapping thresholds.
numpixels_single == 50
numpixels_multi == 2000

None == "None"

----------------------------------------------------------------------------
\* Arithmetic on lengths.

Num(u) == <<u, 0>>
Plus(a, b) == <<a[1] + b[1], a[2] + b[2]>>
Minus(a, b) == <<a[1] - b[1], a[2] - b[2]>>
Leq(a, b) == a[1] < b[1] \/ (a[1] = b[1] /\ a[2] <= b[2])

\* Squared Euclidean distance of two points, as the polynomial
\* <<c0, c1, c2>> = c0 + c1*d + c2*d^2, ordered lexicographically.
Dist2(p, q) ==
    LET dx == Minus(p[1], q[1])
        dy == Minus(p[2], q[2])
    IN  <<dx[1] * dx[1] + dy[1] * dy[1],
          2 * (dx[1] * dx[2] + dy[1] * dy[2]),
          dx[2] * dx[2] + dy[2] * dy[2]>>

Less3(a, b) ==
    \/ a[1] < b[1]
    \/ a[1] = b[1] /\ a[2] < b[2]
    \/ a[1] = b[1] /\ a[2] = b[2] /\ a[3] < b[3]

RECURSIVE SumCard(_)
SumCard(S) ==
    IF S = {} THEN 0
    ELSE LET x == CHOOSE y \in S : TRUE
         IN  Cardinality(x) + SumCard(S \ {x})

SetMin(S) == CHOOSE x \in S : \A y \in S : x <= y
SetMax(S) == CHOOSE x \in S : \A y \in S : y <= x

----------------------------------------------------------------------------
\* Geometries.  A polygon is [ext, holes, off]: the raster cells <<row, col>>
\* its exterior ring encloses, the cell sets of its interior rings, and a
\* sub-pixel displacement of the whole figure.  Cell <<r, c>> is the square of
\* one pixel centred at longitude Pixel*c, latitude -Pixel*r.

World == (0..MaxRow) \X (0..MaxCol)

Rect(r0, c0, r1, c1) == (r0..r1) \X (c0..c1)

\* shapely: polygon.area
area(p) == Cardinality(p.ext) - SumCard(p.holes)

\* shapely: polygon.bounds = (xmin, ymin, xmax, ymax)
bounds(p) ==
    LET rows == {x[1] : x \in p.ext}
        cols == {x[2] : x \in p.ext}
        h    == Pixel \div 2
    IN  << Pixel * SetMin(cols) - h + p.off,
           -(Pixel * SetMax(rows)) - h + p.off,
           Pixel * SetMax(cols) + h + p.off,
           -(Pixel * SetMin(rows)) + h + p.off >>

\* Variant: the last index of a maximal element.
np_argmax_last(s) ==
    CHOOSE i \in DOMAIN s :
        /\ \A j \in DOMAIN s : s[j] <= s[i]
        /\ \A j \in DOMAIN s : j > i => s[j] < s[i]

\* numpy: np.argmax returns the first index of the maximum.
np_argmax(s) ==
    CHOOSE i \in DOMAIN s :
        /\ \A j \in DOMAIN s : s[j] <= s[i]
        /\ \A j \in DOMAIN s : j < i => s[j] < s[i]

----------------------------------------------------------------------------
\* get_subdivided_merit_polygon, step by step.

\* A geometry is [geom_type, geoms]: a Polygon has one part, a MultiPolygon a
\* list of parts.  The part the function works on:
catchment_poly_selected(g) ==
    IF g.geom_type = "Polygon" THEN g.geoms[1]
    ELSE g.geoms[np_argmax([i \in DOMAIN g.geoms |-> area(g.geoms[i])])]

\* np.floor(x * 1200) / 1200 and np.ceil(x * 1200) / 1200
floor1200(x) == (x \div Pixel) * Pixel
ceil1200(x) == -(((-x) \div Pixel) * Pixel)

\* Variant: every corner rounded down.
bounding_box_floor(b) ==
    << Minus(Num(floor1200(b[1])), halfpix),
       Minus(Num(floor1200(b[2])), halfpix),
       Plus(Num(floor1200(b[3])), halfpix),
       Plus(Num(floor1200(b[4])), halfpix) >>

\* bounding_box = (left, bottom, right, top)
bounding_box(b) ==
    << Minus(Num(floor1200(b[1])), halfpix),
       Minus(Num(floor1200(b[2])), halfpix),
       Plus(Num(ceil1200(b[3])), halfpix),
       Plus(Num(ceil1200(b[4])), halfpix) >>

\* Grid.from_raster(window=bounding_box): the grid has one cell per pixel step
\* of the window, its affine origin is the window's (left, top) corner.
grid_shape(bb) ==
    << (bb[4][1] - bb[2][1]) \div Pixel, (bb[3][1] - bb[1][1]) \div Pixel >>

Idx(shape) == (0..(shape[1] - 1)) \X (0..(shape[2] - 1))

\* The world cell whose centre is the centre of grid cell <<i, j>>.
world_cell(bb, ij) ==
    LET x == Plus(Plus(bb[1], Num(Pixel * ij[2])), halfpix)
        y == Minus(Minus(bb[4], Num(Pixel * ij[1])), halfpix)
    IN  << (-y[1]) \div Pixel, x[1] \div Pixel >>

\* Windowed read of a raster file: cells outside the file are nodata.
read_raster(file, bb) ==
    [ij \in Idx(grid_shape(bb)) |->
        IF world_cell(bb, ij) \in DOMAIN file THEN file[world_cell(bb, ij)]
        ELSE nodata]

\* filled_poly = Polygon(poly.exterior.coords); grid.rasterize(multi_poly):
\* 1 where the cell centre lies inside the exterior ring.
rasterize(part, bb) ==
    [ij \in Idx(grid_shape(bb)) |->
        IF world_cell(bb, ij) \in part.ext THEN 1 ELSE 0]

\* grid.clip_to(name): the view becomes the bounding rectangle of the cells
\* that are not nodata; the stored arrays keep the shape they were read with.
clip_to(nz) ==
    [yi_min |-> SetMin({x[1] : x \in nz}), yi_max |-> SetMax({x[1] : x \in nz}),
     xi_min |-> SetMin({x[2] : x \in nz}), xi_max |-> SetMax({x[2] : x \in nz})]

view_shape(v) == << v.yi_max - v.yi_min + 1, v.xi_max - v.xi_min + 1 >>

\* m, n = grid.shape; for i in range(0, m): for j in range(0, n):
\*     if int(grid.mymask[i, j]) == 0: grid.acc[i, j] = 0
mask_acc(acc, mymask, shape) ==
    [ij \in DOMAIN acc |->
        IF ij[1] < shape[1] /\ ij[2] < shape[2] /\ mymask[ij] = 0 THEN 0
        ELSE acc[ij]]

numpixels(bSingle) == IF bSingle THEN numpixels_single ELSE numpixels_multi

\* streams = grid.acc > numpixels
streams(acc, T) == {ij \in DOMAIN acc : acc[ij] > T}

\* Variant: rows counted northwards from the top of the window.
label_north(bb, ij) ==
    << Plus(bb[1], Num(Pixel * ij[2])), Plus(bb[4], Num(Pixel * ij[1])) >>

\* affine * (col, row): the label of a cell is its upper left corner.
label(bb, ij) ==
    << Plus(bb[1], Num(Pixel * ij[2])), Minus(bb[4], Num(Pixel * ij[1])) >>

\* grid.snap_to_mask(streams, xy): the cells of the mask nearest to xy
\* (scipy's cKDTree.query returns one of them).
snap_to_mask(mask, xy, bb) ==
    {s \in mask : \A t \in mask : ~Less3(Dist2(label(bb, t), xy), Dist2(label(bb, s), xy))}

----------------------------------------------------------------------------
\* grid.catchment(data='fdir', x, y, dirmap, xytype='label', recursionlimit)

\* The view of a stored array that grid.catchment works on: the rectangle of
\* the current view, without the polygon mask (apply_mask=False).
view(arr, v) ==
    [ab \in Idx(view_shape(v)) |-> arr[<< v.yi_min + ab[1], v.xi_min + ab[2] >>]]

on_rim(ab, shape) ==
    ab[1] = 0 \/ ab[2] = 0 \/ ab[1] = shape[1] - 1 \/ ab[2] = shape[2] - 1

\* _pop_rim: the first and last row and column are nodata during the search.
pop_rim(fv, shape) ==
    [ab \in DOMAIN fv |-> IF on_rim(ab, shape) THEN nodata ELSE fv[ab]]

\* The neighbour a flow direction code names (dirmap order N, NE, E, SE, S,
\* SW, W, NW; rows grow southwards).
flows_to(ab, code) ==
    CASE code = dirmap[1] -> << ab[1] - 1, ab[2] >>
      [] code = dirmap[2] -> << ab[1] - 1, ab[2] + 1 >>
      [] code = dirmap[3] -> << ab[1], ab[2] + 1 >>
      [] code = dirmap[4] -> << ab[1] + 1, ab[2] + 1 >>
      [] code = dirmap[5] -> << ab[1] + 1, ab[2] >>
      [] code = dirmap[6] -> << ab[1] + 1, ab[2] - 1 >>
      [] code = dirmap[7] -> << ab[1], ab[2] - 1 >>
      [] code = dirmap[8] -> << ab[1] - 1, ab[2] - 1 >>
      [] OTHER -> ab

\* selection[fdir.flat[selection] == r_dirmap]: the neighbours of the cells
\* whose code points into one of them.
next_idx(fp, cells) ==
    {q \in DOMAIN fp : fp[q] # nodata /\ flows_to(q, fp[q]) # q /\ flows_to(q, fp[q]) \in cells}

\* catchment_search: one Python call per level of the upstream search, with no
\* set of visited cells; depth is the depth of the call stack.
RECURSIVE catchment_search(_, _, _, _)
catchment_search(fp, cells, collect, depth) ==
    IF depth > recursionlimit THEN [fault |-> "RecursionError", collect |-> {}]
    ELSE IF next_idx(fp, cells) = {} THEN [fault |-> "none", collect |-> collect \cup cells]
    ELSE catchment_search(fp, next_idx(fp, cells), collect \cup cells, depth + 1)

\* The catchment of the cell labelled (x, y) in the current view v of fdir:
\* [fault, catch], catch the cells of the view with a value other than
\* nodata_out.  outcatch.flat[collect] = fdir.flat[collect] is evaluated while
\* the rim is popped.
catchment(fdir, v, bb, x, y) ==
    LET shape == view_shape(v)
        fp    == pop_rim(view(fdir, v), shape)
        xul   == Plus(bb[1], Num(Pixel * v.xi_min))
        yul   == Minus(bb[4], Num(Pixel * v.yi_min))
        col   == Minus(x, xul)[1] \div Pixel
        row   == Minus(yul, y)[1] \div Pixel
        pour  == << row, col >>
    IN  IF pour \notin Idx(shape) THEN [fault |-> "ValueError", catch |-> {}]
        ELSE IF row = shape[1] - 1 THEN [fault |-> "IndexError", catch |-> {}]
        ELSE LET r == catchment_search(fp, {pour}, {}, 1)
             IN  [fault |-> r.fault,
                  catch |-> {ab \in r.collect : fp[ab] # nodata}]

\* grid.polygonize(): one shape per 4-connected group of cells of the mask.
Adj4(a, b) ==
    \/ a[1] = b[1] /\ (a[2] = b[2] + 1 \/ b[2] = a[2] + 1)
    \/ a[2] = b[2] /\ (a[1] = b[1] + 1 \/ b[1] = a[1] + 1)

RECURSIVE Grow(_, _)
Grow(S, comp) ==
    LET more == {x \in S \ comp : \E y \in comp : Adj4(x, y)}
    IN  IF more = {} THEN comp ELSE Grow(S, comp \cup more)

RECURSIVE polygonize(_)
polygonize(S) ==
    IF S = {} THEN {}
    ELSE LET c == Grow(S, {CHOOSE x \in S : TRUE})
         IN  {c} \cup polygonize(S \ c)

----------------------------------------------------------------------------
\* The whole call.  Its outcome is a record of the values the function has
\* computed when it returns or raises:
\*   kept         the part of catchment_poly it works on
\*   window       bounding_box
\*   fdir_window, acc_window   the window of each raster read (<<>>: no read)
\*   mymask       the world cells of the rasterized mask
\*   view         the world cells of the view after grid.clip_to("mymask")
\*   acc          grid.acc after the masking loop, by world cell
\*   stream       the world cells of streams
\*   pour         the world cell snapped to (<<-1, -1>>: none)
\*   snap         the coordinate (x, y) snap_to_mask returned
\*   lng_snap, lat_snap, dist  as they stand at the end of the call
\*   catch        the world cells of the delineated catchment
\*   fault        what was raised inside the try block, "none" if nothing
\*   failed_in    the call of the try block that raised it: "catchment",
\*                "clip_to", or "none"
\*   shape_count  the number of shapes polygonize returned
\*   ret          the returned tuple (<<>>: the call raised)
\*   exc          the exception that left the call, "none" if it returned

NoCell == << -1, -1 >>
NoNum == << 0, 0 >>

Blank(kept, bb) ==
    [kept |-> kept, window |-> bb, fdir_window |-> <<>>, acc_window |-> <<>>,
     mymask |-> {}, view |-> {}, acc |-> <<>>, stream |-> {}, pour |-> NoCell,
     snap |-> << NoNum, NoNum >>,
     lng_snap |-> NoNum, lat_snap |-> NoNum, dist |-> <<0, 0, 0>>,
     catch |-> {}, fault |-> "none", failed_in |-> "none", shape_count |-> 0,
     ret |-> <<>>, exc |-> "none"]

\* The half pixel nudge of the snapped outlet.
nudge_lng(x) == Plus(x, halfpix)
nudge_lat(y) == Minus(y, halfpix)

\* except: return None, lng_snap, lat_snap
return_failure(lng_snap, lat_snap) ==
    << [kind |-> None, cells |-> {}], lng_snap, lat_snap >>

\* return shapely_polygon, lat_snap, lng_snap
return_polygon(poly, lng_snap, lat_snap) ==
    << poly, lat_snap, lng_snap >>

\* Polygon([[p[0], p[1]] for p in pysheds_polygon['coordinates'][0]]): the
\* polygon of the shape's exterior ring.  It covers the cells of the shape and
\* the cells the shape encloses (those with no way out through cell edges).
shapely_polygon(shape) ==
    LET rows == {x[1] : x \in shape}
        cols == {x[2] : x \in shape}
        R    == ((SetMin(rows) - 1)..(SetMax(rows) + 1))
                    \X ((SetMin(cols) - 1)..(SetMax(cols) + 1))
        edge == {x \in R : \/ x[1] \in {SetMin(rows) - 1, SetMax(rows) + 1}
                           \/ x[2] \in {SetMin(cols) - 1, SetMax(cols) + 1}}
    IN  R \ Grow(R \ shape, edge)

\* Variant: the first polygon is returned whatever the count.
merge_first(shapes) ==
    [kind |-> "Polygon", cells |-> shapely_polygon(CHOOSE c \in shapes : TRUE)]

\* shape_count > 1: ops.unary_union(shapely_polygons); else shapely_polygons[0]
merge(shapes) ==
    IF Cardinality(shapes) > 1
    THEN [kind |-> "MultiPolygon", cells |-> UNION {shapely_polygon(c) : c \in shapes}]
    ELSE [kind |-> "Polygon", cells |-> shapely_polygon(CHOOSE c \in shapes : TRUE)]

\* From the snapped cell s on: lines 236-317.
after_snap(base, fdir, v, bb, s, xy) ==
    LET lab == label(bb, s)
        c   == catchment(fdir, v, bb, lab[1], lab[2])
        snapped == [base EXCEPT !.pour = world_cell(bb, s), !.snap = lab,
                                !.lng_snap = lab[1], !.lat_snap = lab[2],
                                !.dist = Dist2(lab, xy)]
        cw  == {world_cell(bb, << v.yi_min + ab[1], v.xi_min + ab[2] >>) : ab \in c.catch}
        shapes == polygonize(cw)
    IN  IF c.fault # "none"
        THEN [snapped EXCEPT !.fault = c.fault, !.failed_in = "catchment",
                             !.ret = return_failure(lab[1], lab[2])]
        ELSE IF c.catch = {}
        \* grid.clip_to('catch') finds no cell: ValueError inside the try block
        THEN [snapped EXCEPT !.fault = "ValueError", !.failed_in = "clip_to",
                             !.ret = return_failure(lab[1], lab[2])]
        ELSE [snapped EXCEPT !.catch = cw,
                             !.shape_count = Cardinality(shapes),
                             !.lng_snap = nudge_lng(lab[1]),
                             !.lat_snap = nudge_lat(lab[2]),
                             !.ret = return_polygon(merge(shapes),
                                        nudge_lng(lab[1]), nudge_lat(lab[2]))]

\* The set of outcomes of get_subdivided_merit_polygon(wid, basin, lat, lng,
\* catchment_poly, bSingleCatchment) on the rasters ff (flow direction) and af
\* (accumulation); fOK, aOK: os.path.isfile of the two rasters.
delineate(g, ff, af, la, ln, bS, fOK, aOK) ==
    LET kept == catchment_poly_selected(g)
        bb   == bounding_box(bounds(kept))
        b0   == Blank(kept, bb)
        fdir == read_raster(ff, bb)
        mymask == rasterize(kept, bb)
        nz   == {ij \in DOMAIN mymask : mymask[ij] # 0}
        b1   == [b0 EXCEPT !.fdir_window = bb,
                           !.mymask = {world_cell(bb, ij) : ij \in nz}]
        v    == clip_to(nz)
        acc  == mask_acc(read_raster(af, bb), mymask, view_shape(v))
        st   == streams(acc, numpixels(bS))
        xy   == << Num(ln), Num(la) >>
        o    == world_cell(bb, << 0, 0 >>)
        b2   == [b1 EXCEPT !.acc_window = bb,
                           !.view = {world_cell(bb, << v.yi_min + ab[1], v.xi_min + ab[2] >>) :
                                        ab \in Idx(view_shape(v))},
                           !.acc = [c \in {world_cell(bb, ij) : ij \in DOMAIN acc} |->
                                        acc[<< c[1] - o[1], c[2] - o[2] >>]],
                           !.stream = {world_cell(bb, ij) : ij \in st}]
    IN  IF ~fOK THEN {[b0 EXCEPT !.exc = "Exception"]}
        ELSE IF ~aOK THEN {[b1 EXCEPT !.exc = "Exception"]}
        ELSE IF nz = {} THEN {[b1 EXCEPT !.acc_window = bb, !.exc = "ValueError"]}
        ELSE IF st = {} THEN {[b2 EXCEPT !.exc = "IndexError"]}
        ELSE {after_snap(b2, fdir, v, bb, s, xy) : s \in snap_to_mask(st, xy, bb)}

----------------------------------------------------------------------------
\* fast_dissolve.close_holes(poly, area_max)

\* The part close_holes works on.
close_holes_selected(g) ==
    IF g.geom_type = "Polygon" THEN g.geoms[1]
    ELSE g.geoms[np_argmax([i \in DOMAIN g.geoms |-> area(g.geoms[i])])]

\* The interiors kept when area_max is not 0: p.area > area_max.
list_interiors(p, amax) == {h \in p.holes : Cardinality(h) > amax}

close_holes(g, amax) ==
    LET p == close_holes_selected(g)
    IN  IF amax = 0
        THEN IF p.holes # {} THEN [p EXCEPT !.holes = {}] ELSE p
        ELSE [p EXCEPT !.holes = list_interiors(p, amax)]

----------------------------------------------------------------------------
\* The inputs the model is run on.

\* Largest area_max tried.
MaxAreaMax == 3

Box == Rect(1, 1, MaxRow - 1, MaxCol - 1)

Part(ext, holes, off) == [ext |-> ext, holes |-> holes, off |-> off]
Polygon(p) == [geom_type |-> "Polygon", geoms |-> << p >>]
MultiPolygon(ps) == [geom_type |-> "MultiPolygon", geoms |-> ps]

PFull(off) == Part(Box, {}, off)
\* a C: the second row keeps only its first cell
PC == Part(Box \ {<< 2, c >> : c \in 2..(MaxCol - 1)}, {}, 0)
\* a notch: the second row keeps its first two cells
PNotch == Part(Box \ {<< 2, c >> : c \in 3..(MaxCol - 1)}, {}, 0)
\* a lake around cell <<2, 2>>, and an island in it
PRing == Part(Box, {{<< 2, 2 >>}}, 0)
PDot(cell) == Part({cell}, {}, 0)

UnitCatchments ==
    {Polygon(PFull(o)) : o \in {-1, 0, 1}}
    \cup {Polygon(PC), Polygon(PNotch), Polygon(PRing),
          MultiPolygon(<< PRing, PDot(<< 2, 2 >>) >>),
          MultiPolygon(<< PDot(<< 2, 3 >>), PC >>),
          MultiPolygon(<< PDot(<< 1, 1 >>), PDot(<< MaxRow - 1, MaxCol - 1 >>) >>),
          MultiPolygon(<< PDot(<< MaxRow - 1, MaxCol - 1 >>), PDot(<< 1, 1 >>) >>)}

\* Flow direction rasters: one code everywhere but in two cells.
FlowCodes == {nodata, dirmap[3], dirmap[7]}
FdirOf(b, d1, d2) ==
    [x \in World |-> IF x = << 2, 2 >> THEN d1 ELSE IF x = << 2, 3 >> THEN d2 ELSE b]
FdirRasters ==
    {FdirOf(b, d1, d2) : b \in {nodata, dirmap[7]},
                         d1 \in FlowCodes, d2 \in FlowCodes}
\* The rasters hold no flow cycle (hydrologically conditioned data): following
\* the codes from a cell x never leads back to x.
RECURSIVE LeadsBack(_, _, _, _)
LeadsBack(f, x, y, n) ==
    IF n = 0 \/ f[y] = nodata \/ flows_to(y, f[y]) \notin DOMAIN f THEN FALSE
    ELSE IF flows_to(y, f[y]) = x THEN TRUE
    ELSE LeadsBack(f, x, flows_to(y, f[y]), n - 1)

Acyclic(f) == \A x \in DOMAIN f : ~LeadsBack(f, x, x, Cardinality(DOMAIN f))

\* Flow direction rasters whose cells K, neighbours of the cell Confluence,
\* flow into it; the confluence has code d, every other cell is nodata.
Confluence == << 3, 3 >>
Around == {x \in World : x # Confluence /\ x[1] - Confluence[1] \in -1..1 /\ x[2] - Confluence[2] \in -1..1}
Toward(x) == dirmap[CHOOSE k \in DOMAIN dirmap : flows_to(x, dirmap[k]) = Confluence]
ConvergingOf(K, d) ==
    [x \in World |-> IF x = Confluence THEN d
                     ELSE IF x \in K THEN Toward(x) ELSE nodata]
ConvergingRasters ==
    {ConvergingOf(K, d) :
        K \in {Around, {<< 2, 2 >>, << 4, 4 >>}, {<< 2, 3 >>}, {}},
        d \in {nodata, dirmap[7]}}

\* Accumulation rasters: two cells may carry a stream.
AccOf(s1, v1, s2, v2) ==
    [x \in World |-> IF x = s1 THEN v1 ELSE IF x = s2 THEN v2 ELSE 0]
AccRasters ==
    {AccOf(s1, v1, s2, v2) :
        s1 \in {<< 2, 2 >>, << 2, 3 >>},
        v1 \in {numpixels_single, numpixels_multi + 1},
        s2 \in {<< MaxRow - 1, MaxCol - 1 >>, << 2, MaxCol - 1 >>,
                << MaxRow, MaxCol >>, << 0, 0 >>},
        v2 \in {0, numpixels_single + 1, numpixels_multi}}

\* Outlets (lng, lat) in model units.
Outlets == {<< 2 * Pixel + 1, -(2 * Pixel) >>, << MaxCol * Pixel, -(MaxRow * Pixel) >>}

\* Polygons with holes of one, two and three cells for close_holes.
Hole1 == {<< 1, 1 >>}
Hole2 == {<< 3, 1 >>, << 3, 2 >>}
Hole3 == {<< 1, 3 >>, << 1, 4 >>, << 2, 4 >>}
Holed == {Part(World, hs, 0) : hs \in SUBSET {Hole1, Hole2, Hole3}}
HoleInputs ==
    {Polygon(p) : p \in Holed}
    \cup {MultiPolygon(<< p, PDot(<< 1, 1 >>) >>) : p \in Holed}
    \cup {MultiPolygon(<< PDot(<< 1, 1 >>), p >>) : p \in Holed}
    \cup {MultiPolygon(<< Part(Box, {Hole1}, 0), Part(Box, {Hole2}, 0), Part(Box, {Hole3}, 0) >>),
          MultiPolygon(<< PDot(<< 1, 1 >>), PDot(<< 2, 3 >>) >>),
          MultiPolygon(<< PDot(<< 2, 3 >>), PDot(<< 1, 1 >>) >>)}

----------------------------------------------------------------------------
VARIABLES
    op,                \* which function is called
    pc,                \* "call", then "returned" or "raised"
    catchment_poly, fdir_file, acc_file, lat, lng, bSingleCatchment,
    fdir_isfile, accum_isfile,   \* arguments and files of get_subdivided_merit_polygon
    loc,               \* its outcome
    poly, area_max,    \* arguments of close_holes
    closed,            \* its result
    chan,              \* the channel a step-by-step upstream search runs on
    cells,             \* the cells argument of the running catchment_search call
    depth,             \* the number of nested catchment_search calls
    result             \* what the call made of the search: "none" while it runs

vars == << op, pc, catchment_poly, fdir_file, acc_file, lat, lng, bSingleCatchment,
           fdir_isfile, accum_isfile, loc, poly, area_max, closed,
           chan, cells, depth, result >>

Idle == Blank(PFull(0), bounding_box(bounds(PFull(0))))

InitDelineate ==
    /\ op = "get_subdivided_merit_polygon"
    /\ catchment_poly \in UnitCatchments
    /\ fdir_file \in {f \in FdirRasters : Acyclic(f)}
    /\ acc_file \in AccRasters
    /\ \E o \in Outlets : lng = o[1] /\ lat = o[2]
    /\ bSingleCatchment \in BOOLEAN
    /\ fdir_isfile = TRUE /\ accum_isfile = TRUE
    /\ poly = Polygon(PFull(0)) /\ area_max = 0

\* Calls on a confluence: the stream cell is the confluence.
InitConfluence ==
    /\ op = "get_subdivided_merit_polygon"
    /\ catchment_poly \in {Polygon(PFull(0)), Polygon(PNotch)}
    /\ fdir_file \in {f \in ConvergingRasters : Acyclic(f)}
    /\ acc_file = AccOf(Confluence, numpixels_multi + 1, << 0, 0 >>, 0)
    /\ \E o \in Outlets : lng = o[1] /\ lat = o[2]
    /\ bSingleCatchment \in BOOLEAN
    /\ fdir_isfile = TRUE /\ accum_isfile = TRUE
    /\ poly = Polygon(PFull(0)) /\ area_max = 0

InitMissingFile ==
    /\ op = "get_subdivided_merit_polygon"
    /\ catchment_poly \in UnitCatchments
    /\ fdir_file = FdirOf(dirmap[7], dirmap[7], dirmap[7])
    /\ acc_file = AccOf(<< 2, 2 >>, numpixels_multi + 1, << 0, 0 >>, 0)
    /\ lng = 2 * Pixel + 1 /\ lat = -(2 * Pixel)
    /\ bSingleCatchment = TRUE
    /\ fdir_isfile \in BOOLEAN /\ accum_isfile \in BOOLEAN
    /\ ~(fdir_isfile /\ accum_isfile)
    /\ poly = Polygon(PFull(0)) /\ area_max = 0

InitCloseHoles ==
    /\ op = "close_holes"
    /\ poly \in HoleInputs
    /\ area_max \in 0..MaxAreaMax
    /\ catchment_poly = Polygon(PFull(0))
    /\ fdir_file = FdirOf(dirmap[7], dirmap[7], dirmap[7])
    /\ acc_file = AccOf(<< 2, 2 >>, numpixels_multi + 1, << 0, 0 >>, 0)
    /\ lng = 2 * Pixel + 1 /\ lat = -(2 * Pixel)
    /\ bSingleCatchment = TRUE
    /\ fdir_isfile = TRUE /\ accum_isfile = TRUE

NoChannel == [len |-> 0, cyclic |-> FALSE]

Init ==
    /\ pc = "call"
    /\ loc = Idle
    /\ closed = PFull(0)
    /\ chan = NoChannel /\ cells = {} /\ depth = 0 /\ result = "none"
    /\ (InitDelineate \/ InitConfluence \/ InitMissingFile \/ InitCloseHoles)

GetSubdividedMeritPolygon ==
    /\ op = "get_subdivided_merit_polygon"
    /\ pc = "call"
    /\ \E o \in delineate(catchment_poly, fdir_file, acc_file, lat, lng,
                          bSingleCatchment, fdir_isfile, accum_isfile) :
          /\ loc' = o
          /\ pc' = IF o.exc = "none" THEN "returned" ELSE "raised"
    /\ UNCHANGED << op, catchment_poly, fdir_file, acc_file, lat, lng,
                    bSingleCatchment, fdir_isfile, accum_isfile, poly, area_max, closed,
                    chan, cells, depth, result >>

CloseHoles ==
    /\ op = "close_holes"
    /\ pc = "call"
    /\ closed' = close_holes(poly, area_max)
    /\ pc' = "returned"
    /\ UNCHANGED << op, catchment_poly, fdir_file, acc_file, lat, lng,
                    bSingleCatchment, fdir_isfile, accum_isfile, loc, poly, area_max,
                    chan, cells, depth, result >>

Next == GetSubdividedMeritPolygon \/ CloseHoles

Spec == Init /\ [][Next]_vars

----------------------------------------------------------------------------
\* The upstream search of grid.catchment, one catchment_search call per step,
\* on a channel: a view of three rows whose middle row holds len cells
\* 1..len between the two rim cells, cell k + 1 draining west into cell k, and
\* the pour point in cell 1.  In a cyclic channel cell 1 drains east into
\* cell 2, which drains back into it.

\* Channels of 1..MaxShort cells, and of up to MaxOver cells less or more than
\* the recursion limit.
MaxShort == 3
MaxOver == 1

Channels ==
    {[len |-> n, cyclic |-> FALSE] :
        n \in (1..MaxShort) \cup ((recursionlimit - MaxOver)..(recursionlimit + MaxOver))}
    \cup {[len |-> n, cyclic |-> TRUE] : n \in 2..MaxShort}

\* next_idx on a channel: the cells that drain into one of cs.
channel_next_idx(ch, cs) ==
    {k + 1 : k \in {j \in cs : j + 1 <= ch.len}}
    \cup (IF ch.cyclic /\ 2 \in cs THEN {1} ELSE {})

\* Variant: no ceiling on the nesting.
no_recursionlimit(d) == TRUE

\* sys.setrecursionlimit(recursionlimit): a call at this depth is allowed.
within_recursionlimit(d) == d <= recursionlimit

InitDepth ==
    /\ op = "catchment"
    /\ pc = "call"
    /\ chan \in Channels
    /\ cells = {} /\ depth = 0 /\ result = "none"
    /\ catchment_poly = 0 /\ fdir_file = 0 /\ acc_file = 0 /\ lat = 0 /\ lng = 0
    /\ bSingleCatchment = TRUE /\ fdir_isfile = TRUE /\ accum_isfile = TRUE
    /\ loc = 0 /\ poly = 0 /\ area_max = 0 /\ closed = 0

UnchangedDepth ==
    UNCHANGED << op, catchment_poly, fdir_file, acc_file, lat, lng, bSingleCatchment,
                 fdir_isfile, accum_isfile, loc, poly, area_max, closed, chan >>

\* catchment_search(pour_point)
SearchStart ==
    /\ op = "catchment" /\ pc = "call"
    /\ pc' = "search" /\ cells' = {1} /\ depth' = 1
    /\ result' = result
    /\ UnchangedDepth

\* if next_idx.any(): return catchment_search(next_idx)
SearchDeeper ==
    /\ op = "catchment" /\ pc = "search"
    /\ channel_next_idx(chan, cells) # {}
    /\ within_recursionlimit(depth + 1)
    /\ cells' = channel_next_idx(chan, cells) /\ depth' = depth + 1
    /\ pc' = pc /\ result' = result
    /\ UnchangedDepth

\* The search ran out of upstream cells: the calls return, the catchment stands.
SearchDone ==
    /\ op = "catchment" /\ pc = "search"
    /\ channel_next_idx(chan, cells) = {}
    /\ pc' = "returned" /\ result' = "catchment"
    /\ cells' = cells /\ depth' = depth
    /\ UnchangedDepth

\* The next call exceeds the recursion limit: RecursionError, caught by the
\* bare except of get_subdivided_merit_polygon, which returns None.
SearchRecursionError ==
    /\ op = "catchment" /\ pc = "search"
    /\ channel_next_idx(chan, cells) # {}
    /\ ~within_recursionlimit(depth + 1)
    /\ pc' = "returned" /\ result' = None
    /\ cells' = cells /\ depth' = depth
    /\ UnchangedDepth

NextDepth == SearchStart \/ SearchDeeper \/ SearchDone \/ SearchRecursionError

SpecDepth == InitDepth /\ [][NextDepth]_vars

----------------------------------------------------------------------------
\* Properties.

IsGet == op = "get_subdivided_merit_polygon"
IsCloseHoles == op = "close_holes"

\* The upper left corner of the grid cell that holds world cell c.
Corner(c) ==
    << Minus(Num(Pixel * c[2]), halfpix), Plus(Num(-(Pixel * c[1])), halfpix) >>

Outlet == << Num(lng), Num(lat) >>

\* The cells a part covers, and its area.
PartCells(p) == p.ext \ UNION p.holes
PartArea(p) == Cardinality(PartCells(p))

\* The first part of largest area; the only part of a Polygon.
FirstLargest(g) ==
    IF g.geom_type = "Polygon" THEN g.geoms[1]
    ELSE g.geoms[CHOOSE i \in DOMAIN g.geoms :
                    /\ \A j \in DOMAIN g.geoms : PartArea(g.geoms[j]) <= PartArea(g.geoms[i])
                    /\ \A j \in 1..(i - 1) : PartArea(g.geoms[j]) < PartArea(g.geoms[i])]

\* C1: in both outcomes the call returns (result, snapped latitude, snapped
\* longitude): the second value is the snapped latitude and the third the
\* snapped longitude, also when the result is None.
C1_ReturnsLatThenLng ==
    (IsGet /\ pc = "returned") =>
        (loc.ret[2] = loc.lat_snap /\ loc.ret[3] = loc.lng_snap)

\* C2: no cell outside the rasterized mask is selected: the cell snapped to and
\* every cell of the delineated catchment have mask = True.
C2_OnlyMaskCellsSelected ==
    (IsGet /\ pc = "returned") =>
        (loc.pour \in loc.mymask /\ loc.catch \subseteq loc.mymask)

\* C3: when no cell of the masked accumulation exceeds the threshold, the call
\* ends in the failure NoStreamCellsFound, with no snapped cell and no
\* delineation.
C3_NoStreamCellsFound ==
    (/\ IsGet /\ pc # "call" /\ fdir_isfile /\ accum_isfile
     /\ \A c \in DOMAIN loc.acc :
            loc.acc[c] <= (IF bSingleCatchment THEN 50 ELSE 2000)) =>
        (loc.exc = "NoStreamCellsFound" /\ loc.pour = NoCell /\ loc.catch = {})

\* The stream cells: the cells of the masked accumulation grid (the read
\* accumulation where the mask is True, 0 elsewhere) whose value is greater
\* than 50 (single catchment) or 2000.
StreamCells ==
    {c \in DOMAIN loc.acc :
        (IF c \in loc.mymask THEN loc.acc[c] ELSE 0)
            > (IF bSingleCatchment THEN 50 ELSE 2000)}

\* C4: whenever a stream cell exists, the snapped pour point is the coordinate
\* of a stream cell, no stream cell is strictly closer to the outlet, and the
\* returned distance is the distance to that cell.
C4_SnapsToNearestStreamCell ==
    (IsGet /\ pc = "returned" /\ StreamCells # {}) =>
        /\ loc.pour \in StreamCells
        /\ loc.snap = Corner(loc.pour)
        /\ loc.dist = Dist2(Corner(loc.pour), Outlet)
        /\ \A c \in StreamCells : ~Less3(Dist2(Corner(c), Outlet), loc.dist)

\* What does hold of the snapping: the cell snapped to is a nearest one among
\* the cells above the threshold in the grid the masking loop left behind.
NearestAmongCellsLeftAboveThreshold ==
    LET left == {c \in DOMAIN loc.acc :
                    loc.acc[c] > (IF bSingleCatchment THEN 50 ELSE 2000)}
    IN  (IsGet /\ pc = "returned") =>
            /\ loc.pour \in left
            /\ loc.snap = Corner(loc.pour)
            /\ loc.dist = Dist2(Corner(loc.pour), Outlet)
            /\ \A c \in left : ~Less3(Dist2(Corner(c), Outlet), loc.dist)

\* The ancestors of cell p among the cells V under the flow directions f.
RECURSIVE AncestorsFrom(_, _, _)
AncestorsFrom(V, f, S) ==
    LET more == {q \in V \ S : f[q] # 0 /\ flows_to(q, f[q]) \in S}
    IN  IF more = {} THEN S ELSE AncestorsFrom(V, f, S \cup more)

\* C5: the delineated catchment is exactly the set of ancestors of the pour
\* point cell in the flow direction grid the search ran on, the pour point
\* cell included.
C5_CatchmentIsAncestorSet ==
    (IsGet /\ pc = "returned" /\ loc.ret[1].kind # None) =>
        loc.catch = AncestorsFrom(loc.view, fdir_file, {loc.pour})

InWindow(w, x, y) ==
    /\ Leq(w[1], x) /\ Leq(x, w[3])
    /\ Leq(w[2], y) /\ Leq(y, w[4])

\* C6: the returned snapped coordinate lies within the window bounds, and so
\* does every cell the returned polygon covers.
C6_StaysInWindow ==
    (IsGet /\ pc = "returned") =>
        /\ InWindow(loc.window, loc.lng_snap, loc.lat_snap)
        /\ \A c \in loc.ret[1].cells :
              /\ InWindow(loc.window, Corner(c)[1], Corner(c)[2])
              /\ InWindow(loc.window, Plus(Corner(c)[1], Num(Pixel)),
                                      Minus(Corner(c)[2], Num(Pixel)))

\* C6 witness: a call that returned a polygon and the nudged coordinate.
C6_Witness ==
    /\ IsGet /\ pc = "returned" /\ loc.ret[1].kind # None
    /\ loc.lng_snap = Plus(loc.snap[1], halfpix)
    /\ loc.lat_snap = Minus(loc.snap[2], halfpix)

\* C7 as stated: of a multi-part polygon only the first part of largest area
\* is kept, and no cell lying only in a discarded part is in the mask.
C7_NoDiscardedCellInMask ==
    (IsGet /\ pc # "call" /\ loc.fdir_window # <<>>) =>
        /\ loc.kept = FirstLargest(catchment_poly)
        /\ \A i \in DOMAIN catchment_poly.geoms :
              catchment_poly.geoms[i] # loc.kept =>
                  \A c \in PartCells(catchment_poly.geoms[i]) \ PartCells(loc.kept) :
                      c \notin loc.mymask

\* C7 amended: both functions keep the first part of largest area (the only
\* part of a Polygon); the mask is the inside of the kept part's exterior ring,
\* so a cell of a discarded part is in the mask only if it lies inside that
\* ring (in a hole of the kept part).
C7_KeepsFirstLargestPart ==
    /\ (IsGet /\ pc # "call") => loc.kept = FirstLargest(catchment_poly)
    /\ (IsGet /\ pc # "call" /\ loc.fdir_window # <<>>) =>
          /\ loc.mymask = FirstLargest(catchment_poly).ext
          /\ \A i \in DOMAIN catchment_poly.geoms :
                \A c \in catchment_poly.geoms[i].ext \ FirstLargest(catchment_poly).ext :
                    c \notin loc.mymask
    /\ (IsCloseHoles /\ pc = "returned") =>
          /\ closed.ext = FirstLargest(poly).ext
          /\ closed.holes \subseteq FirstLargest(poly).holes
          /\ closed.off = FirstLargest(poly).off

\* C7 witness: a two-part polygon whose parts have the same area went through
\* get_subdivided_merit_polygon.
C7_Witness ==
    /\ IsGet /\ pc = "returned"
    /\ catchment_poly.geom_type = "MultiPolygon"
    /\ PartArea(catchment_poly.geoms[1]) = PartArea(catchment_poly.geoms[2])
    /\ catchment_poly.geoms[1] # catchment_poly.geoms[2]
    /\ loc.mymask # {}

\* C8: close_holes keeps the exterior ring and exactly the holes of area
\* greater than area_max, for every area_max >= 0.
C8_KeepsHolesAboveThreshold ==
    (IsCloseHoles /\ pc = "returned") =>
        /\ closed.ext = FirstLargest(poly).ext
        /\ closed.holes = {h \in FirstLargest(poly).holes : Cardinality(h) > area_max}

RoundedOutward(a, x, dir) ==
    /\ a[2] = 0 /\ a[1] % Pixel = 0
    /\ IF dir < 0 THEN a[1] <= x /\ x < a[1] + Pixel
                  ELSE a[1] >= x /\ x > a[1] - Pixel

Surrounded(x) ==
    /\ \E y \in loc.catch : y[2] = x[2] /\ y[1] < x[1]
    /\ \E y \in loc.catch : y[2] = x[2] /\ y[1] > x[1]
    /\ \E y \in loc.catch : y[1] = x[1] /\ y[2] < x[2]
    /\ \E y \in loc.catch : y[1] = x[1] /\ y[2] > x[2]

====
